---------------------------- MODULE Spec2Model ----------------------------
(***************************************************************************)
(* Battery monitoring firmware (src/main.ino): setup(), the cooperative    *)
(* loop(), the HTTP handlers and the fan / charging controllers.           *)
(*                                                                         *)
(* Units.  The firmware computes on floats; the model computes on scaled   *)
(* integers so that every comparison of the code is exact:                 *)
(*   voltage       millivolt        (12.6 V   -> 12600)                    *)
(*   current       milliampere      (0.2 A    -> 200)                      *)
(*   temperature   tenth of a degC  (27.0 C   -> 270), NaN is a sentinel   *)
(*   clock values  ticks of 2 ms of millis(), an unsigned long: 2^31 ticks *)
(*                 are the 2^32 ms after which millis() wraps              *)
(*   ampHours      mA*ms, i.e. ampere-hours * 3.6e9                        *)
(***************************************************************************)
EXTENDS Integers, FiniteSets, Sequences, TLC

\* ------------------------------------------------------------ constants
BATTERY_FULL_VOLTAGE == 12600
BATTERY_EMPTY_VOLTAGE == 10500
CHARGING_CURRENT_THRESHOLD == 200
DISCHARGING_CURRENT_THRESHOLD == -100
VOLTAGE_HIGH == 12800
VOLTAGE_LOW == 10000
CURRENT_HIGH == 15000
TEMP_HIGH == 270
TEMP_WARNING == 300
TEMP_OFF == 250
DATA_SEND_INTERVAL == 30000
TEMPERATURE_CHECK_INTERVAL == 2000
\* the literal 1000 of the relay check, line 226
RELAY_CHECK_INTERVAL == 1000
\* the literal 0.3 of controlCharging, line 412
REENABLE_MARGIN == 300
\* the literal 0.15 of readCurrent, line 273
CURRENT_DEADBAND == 150
\* analogWrite values of controlFan
FAN_DUTY_NAN == 200
FAN_DUTY_FULL == 170
\* 500 samples * delay(2) of calibrateCurrentSensor
CALIBRATION_MS == 1000
\* delay(1000) of the WiFi wait of setup
WIFI_POLL_MS == 1000
\* 20 * delay(1) of readVoltage plus 50 * delay(1) of readCurrent
SAMPLE_MS == 70
\* the literal 25 of calculateSoC, line 292
SOC_REFERENCE_TEMP == 250
\* script.gs, CONFIG: hours between alert e-mails, rows kept in the data sheet
ALERT_COOLDOWN_HOURS == 3
MAX_ROWS == 5000
\* script.gs, determineBatteryStatus: thresholds.  State of charge, state of
\* health and temperature in tenths, voltage and current in hundredths
criticalLowSoC == 200
lowSoC == 300
mediumSoC == 700
highSoC == 900
poorSoH == 600
criticalHighTemp == 450
criticalLowVoltage == 1050
highDischargeCurrent == -1000
\* the literals 0.2 and -0.2 of determineBatteryStatus, lines 110-111
chargingCurrent == 20
dischargingCurrent == -20
\* calculateSoH(90) with RATED_CAPACITY 100.0, in tenths of a percent
SOH_TENTHS == 900
\* the value of a script property that was never set
NoTime == -1

\* largest clock tick: millis() is an unsigned long of 32 bits, one tick is 2 ms
ClockMax == 2147483647

\* the value dht.readTemperature() returns for a failed read
NaN == -100000

\* ---------------------------------------------------------------- bounds
\* loop() iterations explored after setup()
MaxIter == 2
\* polls of WiFi.status() explored in setup() when the network stays away
MaxWifiPolls == 30
\* slow ticks explored when the fan controller is followed on its own
MaxFanTicks == 4
\* pairs of fast-loop ticks explored when the Coulomb counter is followed on
\* its own
MaxPairs == 2
\* requests explored when the logging receiver is followed on its own
MaxRequests == 3
\* loop() iterations explored around the wraparound of millis()
MaxWrapIter == 4
\* loop() iterations explored by the long run
MaxLongIter == 17

\* inputs: what the sensors and the environment may deliver
Voltages == {9500, 12000, 12300, 12600, 12900}
\* converted current before the deadband of readCurrent
RawCurrents == {-300, -120, 200, 250, 16000}
Temps == {NaN, 250, 260, 270, 280, 310}
\* time from one read of millis() at line 151 to the next, ms
LoopMs == {1000, 2000}
\* time from WiFi.begin() to WL_CONNECTED, ms; WifiNever: no network within
\* any bound
WifiNever == ClockMax
WifiJoinMs == {1000, 29000, WifiNever}
\* values HTTPClient::GET() may return: a success status, an error status,
\* a transport error
HttpCodes == {200, 500, -1}
\* /toggleRelay requests: whether the state argument is present, and the value
\* String::toInt() reads from it
RelayArgs ==
  {[hasArg |-> FALSE, state |-> 0]} \cup {[hasArg |-> TRUE, state |-> n] : n \in {0, 1, 2}}
\* average ADC count of the current channel during calibration
AdcOffsets == {3103}
\* temperature reads for the fan controller on its own: every half degree from
\* 22.5 C to 32.5 C, and a failed read
FanTemps == {NaN} \cup {225 + 5 * k : k \in 0..20}
\* converted currents and loop durations (ms) for the Coulomb counter on its
\* own; an iteration samples for SAMPLE_MS at least
EnergyCurrents == {-300, -120, 250, 16000}
EnergyMs == {SAMPLE_MS, 1000}
\* voltages, temperature reads and converted currents for calculateSoC on its
\* own
SocVoltages == {0, 9500, 10500, 11550, 12600, 12900, 20000}
SocTemps == {NaN, 0, 250, 260, 400, 800}
SocCurrents == {-300, -120, 250, 16000}
\* the long run: a quiet battery, one iteration every 2 s, so that the second
\* telemetry push (30 s after the first) is reached
LongCurrents == {-120}
LongMs == {2000}
LongVoltages == {12000, 12600}
LongTemps == {250, 280}
\* converted currents, voltages and temperature reads for the charge direction
\* and the charging controller on their own, around every threshold
ChargeRaws == {-300, -150, -149, -101, -100, 0, 149, 150, 200, 201, 1000}
ChargeVoltages == {12000, 12299, 12300, 12600, 12801}
ChargeTemps == {NaN, 250, 269, 270, 271}

\* the pushes and requests the logging receiver is followed with: what the
\* slow block reads (mV, mA, tenths of a degree), ms between two arrivals, ms from the cooldown check of
\* sendAlertEmail to the return of MailApp.sendEmail
PushVoltages == {12000}
PushCurrents == {0, 250}
PushTemps == {250, 280}
PushGapMs == {30000, 10800000}
MailMs == {400, 999}
\* CONFIG.ALERT_EMAIL as the owner of the sheet leaves or sets it
AlertEmails == {"", "owner@example.com"}
\* getLastRow() of the data sheet when the first request arrives: the header
\* alone, or the header and MAX_ROWS - 1 data rows
SheetRows == {1, MAX_ROWS}

\* the run across the wraparound of millis(): ms from the latest read of
\* millis() to the wraparound, ms since the latest push, and a load current
WRAP_LEAD_MS == 3000
WRAP_SINCE_PUSH_MS == 26000
WrapCurrents == {-300, 250}

\* ------------------------------------------------------------ arithmetic
Abs(x) == IF x < 0 THEN -x ELSE x

\* C integer division truncates toward zero
TruncDiv(a, b) ==
  IF (a >= 0) = (b > 0) THEN Abs(a) \div Abs(b) ELSE -(Abs(a) \div Abs(b))

\* a duration in ms as clock ticks
Ticks(ms) == ms \div 2

\* mutant of Sub32: the difference is signed and does not wrap
Sub32_Signed(a, b) == a - b

\* unsigned long a - b, on clock ticks (modulo 2^31 ticks = 2^32 ms)
Sub32(a, b) == IF a >= b THEN a - b ELSE ((ClockMax - b) + a) + 1

\* unsigned long a + d, on clock ticks
Add32(a, d) == IF a > ClockMax - d THEN (a - (ClockMax - d)) - 1 ELSE a + d

isnan(t) == t = NaN

\* float comparisons: every comparison with NaN is false
FGt(a, b) == ~isnan(a) /\ a > b
FLt(a, b) == ~isnan(a) /\ a < b
FLe(a, b) == ~isnan(a) /\ a <= b

\* long map(long x, long in_min, long in_max, long out_min, long out_max) of
\* the Arduino core; the float temperature (tenths here) converts to long by
\* truncation
map(x, in_min, in_max, out_min, out_max) ==
  TruncDiv((TruncDiv(x, 10) - TruncDiv(in_min, 10)) * (out_max - out_min),
           TruncDiv(in_max, 10) - TruncDiv(in_min, 10)) + out_min


\* ------------------------------------------------------------------ state
VARIABLES
  pc,                  \* "boot", "wifi" (setup's wait), "poll" (top of loop()), "body"
  iter,                \* loop() iterations completed
  now,                 \* millis(), in clock ticks
  wifiJoin,            \* environment: ms from WiFi.begin() to WL_CONNECTED
  acs712_offset,
  fanOn,
  chargingEnabled,
  fanStartTime,
  lastDataSendTime,
  lastTempCheckTime,
  ampHours,
  lastCurrentReadTime,
  lastCurrent,
  alertLevel,
  isCharging,
  lastReadingTime,
  relayPin,            \* level of RELAY_PIN, TRUE = HIGH
  fanEna,              \* duty last written to FAN_ENA_PIN
  response,            \* body sent by the handler of the latest handleClient()
  current,             \* local of loop(): the current sampled by the latest iteration
  voltage,             \* local of loop(): the voltage passed to the latest slow tick
  tempRead,            \* what dht.readTemperature() returned to the latest slow tick
  temperature,         \* local of loop(): the temperature that slow tick worked on
  slowTick,            \* the latest iteration ran the slow block (lines 175-222)
  relayCheck,          \* the latest iteration ran the relay check (lines 226-243)
  pushLog,             \* what the latest iteration logged about a telemetry push
  httpCode,            \* what HTTPClient::GET() returned to that push, 0 if none
  lastWriter,          \* who wrote chargingEnabled last: "init", "manual", "auto"
  soc,                 \* what calculateSoC returned to its latest caller, where a
                       \* specification follows that call (SOC_UNIT per percent)
  step,                \* the action that led to this state
  old,                 \* the globals as they were when the latest program step began
  params,              \* script.gs: e.parameter of the latest request
  reply,               \* script.gs: what doGet returned to it
  sheetLastRow,        \* script.gs: getLastRow() of the data sheet, header included
  appendedRows,        \* script.gs: the rows the latest request appended
  dashboard,           \* script.gs: cells B4..B14 of the dashboard
  lastAlertTime,       \* script.gs: the script property, as ms, or NoTime
  mailTimes,           \* script.gs: when the latest two e-mails went out, ms
  mailSent,            \* script.gs: the latest request sent an e-mail
  gsNow,               \* script.gs: new Date() when the latest request arrived, ms
  alertEmail,          \* script.gs: CONFIG.ALERT_EMAIL
  requests             \* script.gs: requests served

hw == <<relayPin, fanEna>>
timers == <<fanStartTime, lastDataSendTime, lastTempCheckTime, lastCurrentReadTime,
            lastReadingTime>>
energy == <<ampHours, lastCurrent>>
locals == <<current, voltage, tempRead, temperature, slowTick, relayCheck, pushLog, httpCode>>
receiver == <<params, reply, sheetLastRow, appendedRows, dashboard, lastAlertTime, mailTimes,
              mailSent, gsNow, alertEmail, requests>>
vars == <<pc, iter, now, wifiJoin, acs712_offset, fanOn, chargingEnabled, alertLevel,
          isCharging, response, lastWriter, soc, hw, timers, energy, locals, step, old,
          receiver>>

\* the globals and pins a program step may write
Snapshot ==
  [acs712_offset |-> acs712_offset, fanOn |-> fanOn, chargingEnabled |-> chargingEnabled,
   fanStartTime |-> fanStartTime, lastDataSendTime |-> lastDataSendTime,
   lastTempCheckTime |-> lastTempCheckTime, ampHours |-> ampHours,
   lastCurrentReadTime |-> lastCurrentReadTime, lastCurrent |-> lastCurrent,
   alertLevel |-> alertLevel, isCharging |-> isCharging,
   lastReadingTime |-> lastReadingTime, relayPin |-> relayPin, fanEna |-> fanEna,
   lastWriter |-> lastWriter]

\* a value of a query string or of a dashboard cell: the characters of a word,
\* or a decimal numeral of n * 10^-dec, or nothing
Text(chars) == [chars |-> chars, dec |-> 0, n |-> 0]
Num(n, dec) == [chars |-> "0-9", dec |-> dec, n |-> n]
Empty == Text("")

\* the logging receiver before its first request, with no alert address
ReceiverIdle ==
  /\ params = [p \in {} |-> Empty]
  /\ reply = [text |-> "", param |-> ""]
  /\ sheetLastRow = 1
  /\ appendedRows = <<>>
  /\ dashboard = [cell \in 4..14 |-> Text("Loading...")]
  /\ lastAlertTime = NoTime
  /\ mailTimes = <<>>
  /\ mailSent = FALSE
  /\ gsNow = 0
  /\ alertEmail = ""
  /\ requests = 0

\* the globals as initialised at lines 58-69; the pins before setup() drives them
Init ==
  /\ pc = "boot"
  /\ iter = 0
  /\ now = 0
  /\ wifiJoin \in WifiJoinMs
  /\ acs712_offset = 0
  /\ fanOn = FALSE
  /\ chargingEnabled = TRUE
  /\ fanStartTime = 0
  /\ lastDataSendTime = 0
  /\ lastTempCheckTime = 0
  /\ ampHours = 0
  /\ lastCurrentReadTime = 0
  /\ lastCurrent = 0
  /\ alertLevel = 0
  /\ isCharging = FALSE
  /\ lastReadingTime = 0
  /\ relayPin = FALSE
  /\ fanEna = 0
  /\ response = "none"
  /\ current = 0
  /\ voltage = 0
  /\ tempRead = 0
  /\ temperature = 0
  /\ slowTick = FALSE
  /\ relayCheck = FALSE
  /\ pushLog = "none"
  /\ httpCode = 0
  /\ lastWriter = "init"
  /\ soc = 0
  /\ step = "Init"
  /\ old = Snapshot
  /\ ReceiverIdle

\* ------------------------------------------------------- pure functions
\* mutant of readCurrent: the deadband includes its bound
readCurrent_Inclusive(raw) == IF Abs(raw) <= CURRENT_DEADBAND THEN 0 ELSE raw

\* readCurrent, line 273: the deadband applied to the converted current
readCurrent(raw) == IF Abs(raw) < CURRENT_DEADBAND THEN 0 ELSE raw

\* mutant of chargeDirection: one threshold, no hold band
chargeDirection_OneThreshold(c, charging) == c >= CHARGING_CURRENT_THRESHOLD

\* loop, lines 158-162: the charge-direction hysteresis
chargeDirection(c, charging) ==
  IF c > CHARGING_CURRENT_THRESHOLD THEN TRUE
  ELSE IF c < DISCHARGING_CURRENT_THRESHOLD THEN FALSE
  ELSE charging

\* mutant of classifyAlert: the over-current clause is missing
classifyAlert_NoCurrent(t, v, c) ==
  IF FGt(t, TEMP_HIGH) \/ v > VOLTAGE_HIGH \/ v < VOLTAGE_LOW THEN 2
  ELSE IF FGt(t, TEMP_WARNING) THEN 1
  ELSE 0

\* loop, lines 185-191: the alert classifier
classifyAlert(t, v, c) ==
  IF FGt(t, TEMP_HIGH) \/ v > VOLTAGE_HIGH \/ v < VOLTAGE_LOW \/ c > CURRENT_HIGH THEN 2
  ELSE IF FGt(t, TEMP_WARNING) THEN 1
  ELSE 0

\* mutant of controlFan: the spin-down ramp runs downwards
controlFan_ReverseRamp(t, on, start, ms) ==
  IF isnan(t) THEN
    [fanOn |-> TRUE, fanStartTime |-> start, dutyCycle |-> FAN_DUTY_NAN]
  ELSE IF t > TEMP_HIGH THEN
    [fanOn |-> TRUE, fanStartTime |-> IF on THEN start ELSE ms,
     dutyCycle |-> FAN_DUTY_FULL]
  ELSE IF t > TEMP_WARNING THEN
    [fanOn |-> TRUE, fanStartTime |-> IF on THEN start ELSE ms,
     dutyCycle |-> map(t, TEMP_WARNING, TEMP_HIGH, 150, 255)]
  ELSE IF on /\ t <= TEMP_OFF THEN
    [fanOn |-> FALSE, fanStartTime |-> start, dutyCycle |-> 0]
  ELSE IF on THEN
    [fanOn |-> TRUE, fanStartTime |-> start,
     dutyCycle |-> map(t, TEMP_OFF, TEMP_WARNING, 150, 100)]
  ELSE
    [fanOn |-> FALSE, fanStartTime |-> start, dutyCycle |-> 0]

\* mutant of controlFan: the fan is switched off anywhere at or below TEMP_HIGH
controlFan_NoDeadband(t, on, start, ms) ==
  IF isnan(t) THEN
    [fanOn |-> TRUE, fanStartTime |-> start, dutyCycle |-> FAN_DUTY_NAN]
  ELSE IF t > TEMP_HIGH THEN
    [fanOn |-> TRUE, fanStartTime |-> IF on THEN start ELSE ms,
     dutyCycle |-> FAN_DUTY_FULL]
  ELSE IF t > TEMP_WARNING THEN
    [fanOn |-> TRUE, fanStartTime |-> IF on THEN start ELSE ms,
     dutyCycle |-> map(t, TEMP_WARNING, TEMP_HIGH, 150, 255)]
  ELSE IF on /\ t <= TEMP_HIGH THEN
    [fanOn |-> FALSE, fanStartTime |-> start, dutyCycle |-> 0]
  ELSE IF on THEN
    [fanOn |-> TRUE, fanStartTime |-> start,
     dutyCycle |-> map(t, TEMP_OFF, TEMP_WARNING, 100, 150)]
  ELSE
    [fanOn |-> FALSE, fanStartTime |-> start, dutyCycle |-> 0]

\* mutant of controlFan: switching off clears the duty and leaves the flag set
controlFan_FlagKept(t, on, start, ms) ==
  IF isnan(t) THEN
    [fanOn |-> TRUE, fanStartTime |-> start, dutyCycle |-> FAN_DUTY_NAN]
  ELSE IF t > TEMP_HIGH THEN
    [fanOn |-> TRUE, fanStartTime |-> IF on THEN start ELSE ms,
     dutyCycle |-> FAN_DUTY_FULL]
  ELSE IF t > TEMP_WARNING THEN
    [fanOn |-> TRUE, fanStartTime |-> IF on THEN start ELSE ms,
     dutyCycle |-> map(t, TEMP_WARNING, TEMP_HIGH, 150, 255)]
  ELSE IF on /\ t <= TEMP_OFF THEN
    [fanOn |-> TRUE, fanStartTime |-> start, dutyCycle |-> 0]
  ELSE IF on THEN
    [fanOn |-> TRUE, fanStartTime |-> start,
     dutyCycle |-> map(t, TEMP_OFF, TEMP_WARNING, 100, 150)]
  ELSE
    [fanOn |-> FALSE, fanStartTime |-> start, dutyCycle |-> 0]

\* mutant of controlFan: above TEMP_HIGH the start time is taken on every call
controlFan_AlwaysStamp(t, on, start, ms) ==
  IF isnan(t) THEN
    [fanOn |-> TRUE, fanStartTime |-> start, dutyCycle |-> FAN_DUTY_NAN]
  ELSE IF t > TEMP_HIGH THEN
    [fanOn |-> TRUE, fanStartTime |-> ms, dutyCycle |-> FAN_DUTY_FULL]
  ELSE IF t > TEMP_WARNING THEN
    [fanOn |-> TRUE, fanStartTime |-> IF on THEN start ELSE ms,
     dutyCycle |-> map(t, TEMP_WARNING, TEMP_HIGH, 150, 255)]
  ELSE IF on /\ t <= TEMP_OFF THEN
    [fanOn |-> FALSE, fanStartTime |-> start, dutyCycle |-> 0]
  ELSE IF on THEN
    [fanOn |-> TRUE, fanStartTime |-> start,
     dutyCycle |-> map(t, TEMP_OFF, TEMP_WARNING, 100, 150)]
  ELSE
    [fanOn |-> FALSE, fanStartTime |-> start, dutyCycle |-> 0]

\* controlFan, lines 333-370: the new fanOn and fanStartTime and the local
\* dutyCycle; `ms` is what millis() returns inside the call
controlFan(t, on, start, ms) ==
  IF isnan(t) THEN
    [fanOn |-> TRUE, fanStartTime |-> start, dutyCycle |-> FAN_DUTY_NAN]
  ELSE IF t > TEMP_HIGH THEN
    [fanOn |-> TRUE, fanStartTime |-> IF on THEN start ELSE ms,
     dutyCycle |-> FAN_DUTY_FULL]
  ELSE IF t > TEMP_WARNING THEN
    [fanOn |-> TRUE, fanStartTime |-> IF on THEN start ELSE ms,
     dutyCycle |-> map(t, TEMP_WARNING, TEMP_HIGH, 150, 255)]
  ELSE IF on /\ t <= TEMP_OFF THEN
    [fanOn |-> FALSE, fanStartTime |-> start, dutyCycle |-> 0]
  ELSE IF on THEN
    [fanOn |-> TRUE, fanStartTime |-> start,
     dutyCycle |-> map(t, TEMP_OFF, TEMP_WARNING, 100, 150)]
  ELSE
    [fanOn |-> FALSE, fanStartTime |-> start, dutyCycle |-> 0]

\* controlFan, lines 346 and 354: a fan that is off is switched on above either
\* threshold, so above the lower of the two
turnOnThreshold == IF TEMP_WARNING < TEMP_HIGH THEN TEMP_WARNING ELSE TEMP_HIGH

\* mutant of fanWrite: the pin is never driven below the lowest ramp duty
fanWrite_Floor(t, dutyCycle) ==
  IF isnan(t) THEN FAN_DUTY_NAN ELSE IF dutyCycle > 0 THEN dutyCycle ELSE 100

\* controlFan, lines 335-341 and 372-384: the duty written to FAN_ENA_PIN
fanWrite(t, dutyCycle) ==
  IF isnan(t) THEN FAN_DUTY_NAN ELSE IF dutyCycle > 0 THEN dutyCycle ELSE 0

\* mutant of controlCharging: charging is switched back on below the full
\* voltage whatever the temperature
controlCharging_HotReenable(v, c, t, enabled, charging) ==
  IF enabled THEN
    IF v >= BATTERY_FULL_VOLTAGE \/ FGt(t, TEMP_HIGH) \/ (charging /\ v > VOLTAGE_HIGH)
    THEN FALSE ELSE TRUE
  ELSE
    IF v < BATTERY_FULL_VOLTAGE /\ ~charging
    THEN TRUE ELSE FALSE

\* mutant of controlCharging: the full-voltage test is strict
controlCharging_StrictFull(v, c, t, enabled, charging) ==
  IF enabled THEN
    IF v > BATTERY_FULL_VOLTAGE \/ FGt(t, TEMP_HIGH) \/ (charging /\ v > VOLTAGE_HIGH)
    THEN FALSE ELSE TRUE
  ELSE
    IF v < BATTERY_FULL_VOLTAGE /\ FLt(t, TEMP_HIGH) /\ ~charging
       /\ v < BATTERY_FULL_VOLTAGE - REENABLE_MARGIN
    THEN TRUE ELSE FALSE

\* mutant of controlCharging: re-enable without the margin
controlCharging_NoMargin(v, c, t, enabled, charging) ==
  IF enabled THEN
    IF v >= BATTERY_FULL_VOLTAGE \/ FGt(t, TEMP_HIGH) \/ (charging /\ v > VOLTAGE_HIGH)
    THEN FALSE ELSE TRUE
  ELSE
    IF v < BATTERY_FULL_VOLTAGE /\ FLt(t, TEMP_HIGH) /\ ~charging
    THEN TRUE ELSE FALSE

\* controlCharging, lines 389-418: the new chargingEnabled
controlCharging(v, c, t, enabled, charging) ==
  IF enabled THEN
    IF v >= BATTERY_FULL_VOLTAGE \/ FGt(t, TEMP_HIGH) \/ (charging /\ v > VOLTAGE_HIGH)
    THEN FALSE ELSE TRUE
  ELSE
    IF v < BATTERY_FULL_VOLTAGE /\ FLt(t, TEMP_HIGH) /\ ~charging
       /\ v < BATTERY_FULL_VOLTAGE - REENABLE_MARGIN
    THEN TRUE ELSE FALSE

\* mutant of integrate: the mean of the two samples is not taken
integrate_NoMean(amp, last, lastT, c, ms) ==
  IF Sub32(ms, lastT) > 0
  THEN [ampHours |-> amp + 2 * (c + last) * Sub32(ms, lastT),
        lastCurrentReadTime |-> ms, lastCurrent |-> c]
  ELSE [ampHours |-> amp, lastCurrentReadTime |-> lastT, lastCurrent |-> last]

\* loop, lines 166-172: the trapezoidal step of the Coulomb counter.  The
\* interval is in ticks of 2 ms, so (c + last) / 2 * ms is (c + last) * ticks.
integrate(amp, last, lastT, c, ms) ==
  IF Sub32(ms, lastT) > 0
  THEN [ampHours |-> amp + (c + last) * Sub32(ms, lastT),
        lastCurrentReadTime |-> ms, lastCurrent |-> c]
  ELSE [ampHours |-> amp, lastCurrentReadTime |-> lastT, lastCurrent |-> last]

\* constrain(amt, low, high) of the Arduino core
constrain(amt, low, high) == IF amt < low THEN low ELSE IF amt > high THEN high ELSE amt

\* calculateSoC, line 302: the result is kept as a multiple of 1/SocPerPercent
\* percent, which makes the division by (full - empty) exact
SocPerPercent == BATTERY_FULL_VOLTAGE - BATTERY_EMPTY_VOLTAGE

\* mutant of calculateSoC: the result is not constrained
calculateSoC_NoConstrain(v, t, c) ==
  LET temp_compensation == IF FGt(t, SOC_REFERENCE_TEMP) THEN -((t - SOC_REFERENCE_TEMP) * 50) ELSE 0
      ir_drop_compensation == IF c > 0 THEN c ELSE 0
      adjusted_voltage == v * 100 + ir_drop_compensation + temp_compensation
  IN  adjusted_voltage - BATTERY_EMPTY_VOLTAGE * 100

\* calculateSoC, lines 289-304, for the temperature t and the current c it
\* reads.  Voltages are in 0.01 mV here: -0.005 V per degree is -50 per tenth
\* of a degree, 0.01 V per ampere is 1 per mA.
calculateSoC(v, t, c) ==
  LET temp_compensation == IF FGt(t, SOC_REFERENCE_TEMP) THEN -((t - SOC_REFERENCE_TEMP) * 50) ELSE 0
      ir_drop_compensation == IF c > 0 THEN c ELSE 0
      adjusted_voltage == v * 100 + ir_drop_compensation + temp_compensation
  IN  constrain(adjusted_voltage - BATTERY_EMPTY_VOLTAGE * 100, 0, 100 * SocPerPercent)

\* loop, lines 178-182: the temperature the slow block works on
substituteNaN(t) == IF isnan(t) THEN 0 ELSE t

\* mutant of reconcile: only a pin that is LOW by mistake is corrected
reconcile_OnlyToHigh(pin, enabled) == IF pin # (~enabled) /\ ~enabled THEN TRUE ELSE pin

\* mutant of reconcile: the mismatch is logged and the pin is left as it is
reconcile_LogOnly(pin, enabled) == pin

\* loop, lines 229-242: the level of RELAY_PIN after the relay check
reconcile(pin, enabled) == IF pin # (~enabled) THEN ~enabled ELSE pin

\* getBatteryState, lines 322-330: the label of handleGetData (line 458) and
\* of the serial report (line 205)
getBatteryState(c) ==
  IF c > CHARGING_CURRENT_THRESHOLD THEN "Charging"
  ELSE IF c < DISCHARGING_CURRENT_THRESHOLD THEN "Discharging"
  ELSE "Idle"

\* sendDataToGoogleSheets, lines 468-496: what the push logs
pushOutcome(connected, code) ==
  IF ~connected THEN "nowifi" ELSE IF code > 0 THEN "sent" ELSE "error"

\* ---------------------------------------------------------------- actions
\* mutant of SetupCalibrate: the calibration is left out
SetupCalibrate_Skipped ==
  /\ pc = "boot"
  /\ step' = "SetupCalibrate"
  /\ old' = Snapshot
  /\ pc' = "wifi"
  /\ fanEna' = 0
  /\ relayPin' = FALSE
  /\ now' = Add32(now, Ticks(CALIBRATION_MS))
  /\ UNCHANGED <<receiver, soc, iter, wifiJoin, acs712_offset, fanOn, chargingEnabled, alertLevel,
                 isCharging, response, lastWriter, timers, energy, locals>>

\* setup, lines 89-118: the pins, the calibration of the current sensor (which
\* takes CALIBRATION_MS), WiFi.begin
SetupCalibrate ==
  /\ pc = "boot"
  /\ step' = "SetupCalibrate"
  /\ old' = Snapshot
  /\ pc' = "wifi"
  /\ fanEna' = 0
  /\ relayPin' = FALSE
  /\ \E o \in AdcOffsets : acs712_offset' = o
  /\ now' = Add32(now, Ticks(CALIBRATION_MS))
  /\ UNCHANGED <<receiver, soc, iter, wifiJoin, fanOn, chargingEnabled, alertLevel, isCharging,
                 response, lastWriter, timers, energy, locals>>

\* WiFi.status() as setup reads it
WifiConnected == wifiJoin # WifiNever /\ now >= Ticks(CALIBRATION_MS) + Ticks(wifiJoin)

\* setup, lines 119-122: one pass of the wait for the network
WifiWait ==
  /\ pc = "wifi"
  /\ ~WifiConnected
  /\ now < Ticks(CALIBRATION_MS) + MaxWifiPolls * Ticks(WIFI_POLL_MS)
  /\ step' = "WifiWait"
  /\ old' = Snapshot
  /\ now' = Add32(now, Ticks(WIFI_POLL_MS))
  /\ UNCHANGED <<receiver, soc, pc, iter, wifiJoin, acs712_offset, fanOn, chargingEnabled, alertLevel,
                 isCharging, response, lastWriter, hw, timers, energy, locals>>

\* setup, lines 124-146: the server starts, the two timestamps are taken
SetupFinish ==
  /\ pc = "wifi"
  /\ WifiConnected
  /\ step' = "SetupFinish"
  /\ old' = Snapshot
  /\ pc' = "poll"
  /\ lastCurrentReadTime' = now
  /\ lastReadingTime' = now
  /\ UNCHANGED <<receiver, soc, iter, now, wifiJoin, acs712_offset, fanOn, chargingEnabled, alertLevel,
                 isCharging, response, lastWriter, hw, fanStartTime, lastDataSendTime,
                 lastTempCheckTime, energy, locals>>

\* a new call of loop() starts: the locals of the previous call are gone
NewLocals ==
  /\ current' = 0
  /\ voltage' = 0
  /\ tempRead' = 0
  /\ temperature' = 0
  /\ slowTick' = FALSE
  /\ relayCheck' = FALSE
  /\ pushLog' = "none"
  /\ httpCode' = 0

\* loop, line 149: server.handleClient() with no request waiting
NoClient ==
  /\ pc = "poll"
  /\ iter < MaxIter
  /\ step' = "NoClient"
  /\ old' = Snapshot
  /\ pc' = "body"
  /\ NewLocals
  /\ response' = "none"
  /\ UNCHANGED <<receiver, soc, iter, now, wifiJoin, acs712_offset, fanOn, chargingEnabled, alertLevel,
                 isCharging, lastWriter, hw, timers, energy>>

\* mutant of relayTarget: every non-zero state argument switches charging on
relayTarget_NonZero(arg, enabled) == IF arg.hasArg THEN arg.state # 0 ELSE ~enabled

\* handleRelay, lines 421-436: the new chargingEnabled
relayTarget(arg, enabled) == IF arg.hasArg THEN arg.state = 1 ELSE ~enabled

\* handleRelay, lines 421-436, dispatched by server.handleClient()
HandleRelay(arg) ==
  /\ pc = "poll"
  /\ iter < MaxIter
  /\ step' = "HandleRelay"
  /\ old' = Snapshot
  /\ pc' = "body"
  /\ NewLocals
  /\ chargingEnabled' = relayTarget(arg, chargingEnabled)
  /\ relayPin' = ~chargingEnabled'
  /\ response' = IF chargingEnabled' THEN "Charging ON" ELSE "Charging OFF"
  /\ lastWriter' = "manual"
  /\ UNCHANGED <<receiver, soc, iter, now, wifiJoin, acs712_offset, fanOn, alertLevel, isCharging,
                 fanEna, timers, energy>>

\* mutant of HandleGetData: the current it samples moves the charge direction
HandleGetData_SetsDirection ==
  /\ pc = "poll"
  /\ iter < MaxIter
  /\ step' = "HandleGetData"
  /\ old' = Snapshot
  /\ pc' = "body"
  /\ NewLocals
  /\ response' = "json"
  /\ \E raw \in RawCurrents : isCharging' = chargeDirection(readCurrent(raw), isCharging)
  /\ UNCHANGED <<receiver, soc, iter, now, wifiJoin, acs712_offset, fanOn, chargingEnabled, alertLevel,
                 lastWriter, hw, timers, energy>>

\* mutant of HandleGetData: the current it samples is stored as lastCurrent
HandleGetData_StoresSample ==
  /\ pc = "poll"
  /\ iter < MaxIter
  /\ step' = "HandleGetData"
  /\ old' = Snapshot
  /\ pc' = "body"
  /\ NewLocals
  /\ response' = "json"
  /\ \E raw \in RawCurrents : lastCurrent' = readCurrent(raw)
  /\ UNCHANGED <<receiver, soc, iter, now, wifiJoin, acs712_offset, fanOn, chargingEnabled, alertLevel,
                 isCharging, lastWriter, hw, timers, ampHours>>

\* handleGetData, lines 439-464, dispatched by server.handleClient()
HandleGetData ==
  /\ pc = "poll"
  /\ iter < MaxIter
  /\ step' = "HandleGetData"
  /\ old' = Snapshot
  /\ pc' = "body"
  /\ NewLocals
  /\ response' = "json"
  /\ UNCHANGED <<receiver, soc, iter, now, wifiJoin, acs712_offset, fanOn, chargingEnabled, alertLevel,
                 isCharging, lastWriter, hw, timers, energy>>

\* handleRoot, lines 500-683, dispatched by server.handleClient()
HandleRoot ==
  /\ pc = "poll"
  /\ iter < MaxIter
  /\ step' = "HandleRoot"
  /\ old' = Snapshot
  /\ pc' = "body"
  /\ NewLocals
  /\ response' = "html"
  /\ UNCHANGED <<receiver, soc, iter, now, wifiJoin, acs712_offset, fanOn, chargingEnabled, alertLevel,
                 isCharging, lastWriter, hw, timers, energy>>

\* environment: an electrical glitch flips the relay output; at most one per
\* iteration, after server.handleClient() (a flip before handleRelay is
\* overwritten by it, two flips cancel)
Glitch ==
  /\ pc = "body"
  /\ step # "Glitch"
  /\ relayPin' = ~relayPin
  /\ step' = "Glitch"
  /\ UNCHANGED <<receiver, soc, old, pc, iter, now, wifiJoin, acs712_offset, fanOn, chargingEnabled,
                 alertLevel, isCharging, response, lastWriter, fanEna, timers, energy,
                 locals>>

\* mutant of SlowBlock: the send time is taken only when the push went out
SlowBlock_StampOnSuccess(currentMillis, v, c, charging, t) ==
  LET temp == substituteNaN(t)
      fan == controlFan(temp, fanOn, fanStartTime, Add32(currentMillis, Ticks(SAMPLE_MS)))
      enabled == controlCharging(v, c, temp, chargingEnabled, charging)
      push == Sub32(currentMillis, lastDataSendTime) >= Ticks(DATA_SEND_INTERVAL)
  IN  /\ lastTempCheckTime' = currentMillis
      /\ alertLevel' = classifyAlert(temp, v, c)
      /\ fanOn' = fan.fanOn
      /\ fanStartTime' = fan.fanStartTime
      /\ fanEna' = fanWrite(temp, fan.dutyCycle)
      /\ chargingEnabled' = enabled
      /\ lastWriter' = IF enabled # chargingEnabled THEN "auto" ELSE lastWriter
      /\ IF push
         THEN \E connected \in BOOLEAN, code \in HttpCodes :
                /\ pushLog' = pushOutcome(connected, code)
                /\ httpCode' = IF connected THEN code ELSE 0
                /\ lastDataSendTime' = IF pushOutcome(connected, code) = "sent"
                                       THEN currentMillis ELSE lastDataSendTime
         ELSE pushLog' = "none" /\ httpCode' = 0 /\ lastDataSendTime' = lastDataSendTime
      /\ voltage' = v
      /\ tempRead' = t
      /\ temperature' = temp

\* loop, lines 175-222: the slow block, for the inputs of this iteration
SlowBlock(currentMillis, v, c, charging, t) ==
  LET temp == substituteNaN(t)
      fan == controlFan(temp, fanOn, fanStartTime, Add32(currentMillis, Ticks(SAMPLE_MS)))
      enabled == controlCharging(v, c, temp, chargingEnabled, charging)
      push == Sub32(currentMillis, lastDataSendTime) >= Ticks(DATA_SEND_INTERVAL)
  IN  /\ lastTempCheckTime' = currentMillis
      /\ alertLevel' = classifyAlert(temp, v, c)
      /\ fanOn' = fan.fanOn
      /\ fanStartTime' = fan.fanStartTime
      /\ fanEna' = fanWrite(temp, fan.dutyCycle)
      /\ chargingEnabled' = enabled
      /\ lastWriter' = IF enabled # chargingEnabled THEN "auto" ELSE lastWriter
      /\ lastDataSendTime' = IF push THEN currentMillis ELSE lastDataSendTime
      /\ IF push
         THEN \E connected \in BOOLEAN, code \in HttpCodes :
                /\ pushLog' = pushOutcome(connected, code)
                /\ httpCode' = IF connected THEN code ELSE 0
         ELSE pushLog' = "none" /\ httpCode' = 0
      /\ voltage' = v
      /\ tempRead' = t
      /\ temperature' = temp

\* loop, lines 151-243: everything after server.handleClient(), for converted
\* currents of Raws, loop durations of Ds, voltages of Vs and temperature
\* reads of Ts
LoopStep(Raws, Ds, Vs, Ts) ==
  /\ pc = "body"
  /\ step' = "LoopBody"
  /\ old' = Snapshot
  /\ pc' = "poll"
  /\ iter' = iter + 1
  /\ \E raw \in Raws, d \in Ds :
       LET currentMillis == now
           c == readCurrent(raw)
           charging == chargeDirection(c, isCharging)
           counted == integrate(ampHours, lastCurrent, lastCurrentReadTime, c, currentMillis)
           slow == Sub32(currentMillis, lastTempCheckTime)
                     >= Ticks(TEMPERATURE_CHECK_INTERVAL)
           check == Sub32(currentMillis, lastReadingTime) >= Ticks(RELAY_CHECK_INTERVAL)
       IN  /\ current' = c
           /\ isCharging' = charging
           /\ ampHours' = counted.ampHours
           /\ lastCurrentReadTime' = counted.lastCurrentReadTime
           /\ lastCurrent' = counted.lastCurrent
           /\ slowTick' = slow
           /\ IF slow
              THEN \E v \in Vs, t \in Ts :
                     SlowBlock(currentMillis, v, c, charging, t)
              ELSE UNCHANGED <<lastTempCheckTime, alertLevel, fanOn, fanStartTime, fanEna,
                               chargingEnabled, lastWriter, lastDataSendTime, pushLog,
                               httpCode, voltage, tempRead, temperature>>
           /\ relayCheck' = check
           /\ lastReadingTime' = IF check THEN currentMillis ELSE lastReadingTime
           /\ relayPin' = IF check THEN reconcile(relayPin, chargingEnabled') ELSE relayPin
           /\ now' = Add32(now, Ticks(d))
  /\ response' = "none"
  /\ UNCHANGED <<receiver, soc, wifiJoin, acs712_offset>>

\* loop, lines 151-243, for the inputs of the main specification
LoopBody == LoopStep(RawCurrents, LoopMs, Voltages, Temps)

Next ==
  \/ SetupCalibrate
  \/ WifiWait
  \/ SetupFinish
  \/ NoClient
  \/ \E arg \in RelayArgs : HandleRelay(arg)
  \/ HandleGetData
  \/ HandleRoot
  \/ Glitch
  \/ LoopBody

Spec == Init /\ [][Next]_vars

\* the program with no electrical glitch on the relay output
NextNoGlitch ==
  \/ SetupCalibrate
  \/ WifiWait
  \/ SetupFinish
  \/ NoClient
  \/ \E arg \in RelayArgs : HandleRelay(arg)
  \/ HandleGetData
  \/ HandleRoot
  \/ LoopBody

SpecNoGlitch == Init /\ [][NextNoGlitch]_vars

\* ------------------------------------------- parts followed on their own
\* the state setup() leaves when the network is there at the first poll
\* the firmware when setup() has returned, the network having joined at the
\* first poll
InitLoopFirmware ==
  /\ pc = "poll"
  /\ iter = 0
  /\ now = Ticks(CALIBRATION_MS) + Ticks(WIFI_POLL_MS)
  /\ wifiJoin = WIFI_POLL_MS
  /\ acs712_offset \in AdcOffsets
  /\ fanOn = FALSE
  /\ chargingEnabled = TRUE
  /\ fanStartTime = 0
  /\ lastDataSendTime = 0
  /\ lastTempCheckTime = 0
  /\ ampHours = 0
  /\ lastCurrentReadTime = now
  /\ lastCurrent = 0
  /\ alertLevel = 0
  /\ isCharging = FALSE
  /\ lastReadingTime = now
  /\ relayPin = FALSE
  /\ fanEna = 0
  /\ response = "none"
  /\ current = 0
  /\ voltage = 0
  /\ tempRead = 0
  /\ temperature = 0
  /\ slowTick = FALSE
  /\ relayCheck = FALSE
  /\ pushLog = "none"
  /\ httpCode = 0
  /\ lastWriter = "init"
  /\ soc = 0
  /\ step = "SetupFinish"
  /\ old = Snapshot

InitLoop == InitLoopFirmware /\ ReceiverIdle

\* loop, lines 175-182 and 194: the temperature read of a slow tick and the
\* call of controlFan, one slow tick after the other
FanTick ==
  /\ iter < MaxFanTicks
  /\ step' = "FanTick"
  /\ old' = Snapshot
  /\ iter' = iter + 1
  /\ \E t \in FanTemps :
       LET temp == substituteNaN(t)
           fan == controlFan(temp, fanOn, fanStartTime, Add32(now, Ticks(SAMPLE_MS)))
       IN  /\ tempRead' = t
           /\ temperature' = temp
           /\ fanOn' = fan.fanOn
           /\ fanStartTime' = fan.fanStartTime
           /\ fanEna' = fanWrite(temp, fan.dutyCycle)
  /\ lastTempCheckTime' = now
  /\ slowTick' = TRUE
  /\ now' = Add32(now, Ticks(TEMPERATURE_CHECK_INTERVAL))
  /\ UNCHANGED <<receiver, soc, pc, wifiJoin, acs712_offset, chargingEnabled, alertLevel, isCharging,
                 response, lastWriter, relayPin, lastDataSendTime, lastCurrentReadTime,
                 lastReadingTime, energy, current, voltage, relayCheck, pushLog, httpCode>>

NextFan == FanTick

SpecFan == InitLoop /\ [][NextFan]_vars

\* loop, lines 151-172, twice: two consecutive iterations that sample the same
\* current, d1 and d2 ms after the previous read of millis().  Only the first
\* iteration after setup() can read the millisecond setup() ended in.
TwoTicks ==
  /\ iter < 2 * MaxPairs
  /\ step' = "TwoTicks"
  /\ old' = Snapshot
  /\ iter' = iter + 2
  /\ \E raw \in EnergyCurrents, d2 \in EnergyMs,
        d1 \in (IF iter = 0 THEN {0} ELSE {}) \cup EnergyMs :
       LET c == readCurrent(raw)
           ms1 == Add32(now, Ticks(d1))
           first == integrate(ampHours, lastCurrent, lastCurrentReadTime, c, ms1)
           ms2 == Add32(ms1, Ticks(d2))
           second == integrate(first.ampHours, first.lastCurrent,
                               first.lastCurrentReadTime, c, ms2)
       IN  /\ current' = c
           /\ isCharging' = chargeDirection(c, chargeDirection(c, isCharging))
           /\ ampHours' = second.ampHours
           /\ lastCurrentReadTime' = second.lastCurrentReadTime
           /\ lastCurrent' = second.lastCurrent
           /\ now' = ms2
  /\ UNCHANGED <<receiver, soc, pc, wifiJoin, acs712_offset, fanOn, chargingEnabled, alertLevel,
                 response, lastWriter, hw, fanStartTime, lastDataSendTime,
                 lastTempCheckTime, lastReadingTime, voltage, tempRead, temperature,
                 slowTick, relayCheck, pushLog, httpCode>>

NextEnergy == TwoTicks

SpecEnergy == InitLoop /\ [][NextEnergy]_vars

\* calculateSoC, lines 289-304: one call, with the voltage it is passed and
\* the temperature and the current it reads
CalculateSoCCall ==
  /\ step' = "calculateSoC"
  /\ old' = Snapshot
  /\ \E v \in SocVoltages, t \in SocTemps, raw \in SocCurrents :
       /\ voltage' = v
       /\ tempRead' = t
       /\ current' = readCurrent(raw)
       /\ soc' = calculateSoC(v, t, readCurrent(raw))
  /\ UNCHANGED <<receiver, pc, iter, now, wifiJoin, acs712_offset, fanOn, chargingEnabled, alertLevel,
                 isCharging, response, lastWriter, hw, timers, energy, temperature,
                 slowTick, relayCheck, pushLog, httpCode>>

NextSoC == CalculateSoCCall

SpecSoC == InitLoop /\ [][NextSoC]_vars

\* the program as the processor runs it: a step the program can take is taken
SpecLive == Init /\ [][NextNoGlitch]_vars /\ WF_vars(NextNoGlitch)

\* loop, line 149, in the long run: server.handleClient() with no request
\* waiting
NoClientLong ==
  /\ pc = "poll"
  /\ iter < MaxLongIter
  /\ step' = "NoClient"
  /\ old' = Snapshot
  /\ pc' = "body"
  /\ NewLocals
  /\ response' = "none"
  /\ UNCHANGED <<receiver, soc, iter, now, wifiJoin, acs712_offset, fanOn, chargingEnabled, alertLevel,
                 isCharging, lastWriter, hw, timers, energy>>

\* loop, lines 151-243, for the inputs of the long run
LoopBodyLong == LoopStep(LongCurrents, LongMs, LongVoltages, LongTemps)

NextLong ==
  \/ SetupCalibrate
  \/ WifiWait
  \/ SetupFinish
  \/ NoClientLong
  \/ LoopBodyLong

\* the program over many iterations with no request and few inputs
SpecLong == Init /\ [][NextLong]_vars

\* loop, lines 155-162: an iteration that samples the converted current raw
\* and does not run the slow block
SampleTick(raw) ==
  /\ step' = "SampleTick"
  /\ old' = Snapshot
  /\ current' = readCurrent(raw)
  /\ isCharging' = chargeDirection(readCurrent(raw), isCharging)
  /\ slowTick' = FALSE
  /\ UNCHANGED <<receiver, soc, pc, iter, now, wifiJoin, acs712_offset, fanOn, chargingEnabled,
                 alertLevel, response, lastWriter, hw, timers, energy, voltage, tempRead,
                 temperature, relayCheck, pushLog, httpCode>>

\* loop, lines 155-162, 178-182 and 195: an iteration that runs the slow
\* block, as the charging controller sees it
ChargingTick ==
  /\ step' = "ChargingTick"
  /\ old' = Snapshot
  /\ \E raw \in ChargeRaws, v \in ChargeVoltages, t \in ChargeTemps :
       LET c == readCurrent(raw)
           charging == chargeDirection(c, isCharging)
           temp == substituteNaN(t)
           enabled == controlCharging(v, c, temp, chargingEnabled, charging)
       IN  /\ current' = c
           /\ isCharging' = charging
           /\ voltage' = v
           /\ tempRead' = t
           /\ temperature' = temp
           /\ chargingEnabled' = enabled
           /\ lastWriter' = IF enabled # chargingEnabled THEN "auto" ELSE lastWriter
  /\ slowTick' = TRUE
  /\ UNCHANGED <<receiver, soc, pc, iter, now, wifiJoin, acs712_offset, fanOn, alertLevel, response,
                 hw, timers, energy, relayCheck, pushLog, httpCode>>

NextCharging ==
  \/ \E raw \in ChargeRaws : SampleTick(raw)
  \/ ChargingTick

\* the charge direction and the charging controller on their own, without the
\* clock: the states of an endless run recur
SpecCharging == InitLoop /\ [][NextCharging]_vars

\* the same, as the processor runs it: loop() is called again and again
SpecChargingLive ==
  /\ InitLoop
  /\ [][NextCharging]_vars
  /\ WF_vars(ChargingTick)
  /\ WF_vars(\E raw \in ChargeRaws : SampleTick(raw))

\* millis() as the latest iteration before the wraparound read it
WrapPrevious == (ClockMax - Ticks(WRAP_LEAD_MS)) + 1

\* the firmware WRAP_LEAD_MS before millis() wraps around, after 49.7 days: the
\* latest iteration ran the slow block and the relay check, the latest push
\* was WRAP_SINCE_PUSH_MS before it
InitWrap ==
  /\ pc = "poll"
  /\ iter = 0
  /\ \E d \in LoopMs : now = Add32(WrapPrevious, Ticks(d))
  /\ wifiJoin = WIFI_POLL_MS
  /\ acs712_offset \in AdcOffsets
  /\ fanOn = FALSE
  /\ chargingEnabled = TRUE
  /\ fanStartTime = 0
  /\ lastDataSendTime = WrapPrevious - Ticks(WRAP_SINCE_PUSH_MS)
  /\ lastTempCheckTime = WrapPrevious
  /\ ampHours = 0
  /\ lastCurrentReadTime = WrapPrevious
  /\ lastCurrent \in {readCurrent(raw) : raw \in WrapCurrents}
  /\ alertLevel = 0
  /\ isCharging = FALSE
  /\ lastReadingTime = WrapPrevious
  /\ relayPin = FALSE
  /\ fanEna = 0
  /\ response = "none"
  /\ current = 0
  /\ voltage = 0
  /\ tempRead = 0
  /\ temperature = 0
  /\ slowTick = FALSE
  /\ relayCheck = FALSE
  /\ pushLog = "none"
  /\ httpCode = 0
  /\ lastWriter = "init"
  /\ soc = 0
  /\ step = "Init"
  /\ old = Snapshot
  /\ ReceiverIdle

\* loop, line 149, around the wraparound: server.handleClient() with no
\* request waiting
NoClientWrap ==
  /\ pc = "poll"
  /\ iter < MaxWrapIter
  /\ step' = "NoClient"
  /\ old' = Snapshot
  /\ pc' = "body"
  /\ NewLocals
  /\ response' = "none"
  /\ UNCHANGED <<receiver, soc, iter, now, wifiJoin, acs712_offset, fanOn, chargingEnabled,
                 alertLevel, isCharging, lastWriter, hw, timers, energy>>

\* loop, lines 151-243, for the inputs of the run across the wraparound
LoopBodyWrap == LoopStep(WrapCurrents, LoopMs, LongVoltages, LongTemps)

NextWrap == NoClientWrap \/ LoopBodyWrap

\* loop() from shortly before the wraparound of millis() to shortly after it
SpecWrap == InitWrap /\ [][NextWrap]_vars

\* ------------------------------------------------- the logging receiver
\* String(value, decimals) of the Arduino core and toFixed of the script: the
\* quotient n / d rounded to the nearest integer, halves away from zero
RoundDiv(n, d) ==
  IF n < 0 THEN -((2 * (-n) + d) \div (2 * d)) ELSE (2 * n + d) \div (2 * d)

\* sendDataToGoogleSheets, lines 470-480: the query string of a push, for a
\* voltage in mV, a current in mA, a temperature and a state of health in
\* tenths, a state of charge in units of soc and the Coulomb counter
pushUrl(v, c, t, s, h, alert, amp, fan, enabled, charging) ==
  [voltage |-> Num(RoundDiv(v, 10), 2),
   current |-> Num(RoundDiv(c, 10), 2),
   temperature |-> IF isnan(t) THEN Text("nan") ELSE Num(t, 1),
   soc |-> Num(RoundDiv(s * 10, SocPerPercent), 1),
   soh |-> Num(h, 1),
   alert |-> Num(alert, 0),
   ampHours |-> Num(RoundDiv(amp, 3600000), 3),
   fanStatus |-> Num(IF fan THEN 1 ELSE 0, 0),
   chargingStatus |-> Num(IF enabled THEN 1 ELSE 0, 0),
   batteryState |-> Text(IF charging THEN "Charging" ELSE "Discharging")]

\* doGet, line 33
requiredParams == <<"voltage", "current", "temperature", "soc", "soh", "alert">>

\* params[p] of the script: a parameter the request does not carry reads as
\* undefined, which is falsy and parses to NaN as the empty string does
Get(e, p) == IF p \in DOMAIN e THEN e[p] ELSE Empty

\* the truth value of a string: every string but the empty one, "0" included
Truthy(val) == val # Empty

RECURSIVE Pow10(_)
Pow10(k) == IF k = 0 THEN 1 ELSE 10 * Pow10(k - 1)

\* parseFloat, the result in units of 10^-dec
parseFloat(val, dec) ==
  IF val.chars # "0-9" THEN NaN
  ELSE IF val.dec <= dec THEN val.n * Pow10(dec - val.dec)
  ELSE TruncDiv(val.n, Pow10(val.dec - dec))

\* parseInt: the digits before the decimal point
parseInt(val) == IF val.chars # "0-9" THEN NaN ELSE TruncDiv(val.n, Pow10(val.dec))

\* doGet, lines 41-52
parseData(e, t) ==
  [timestamp |-> t,
   voltage |-> parseFloat(Get(e, "voltage"), 2),
   current |-> parseFloat(Get(e, "current"), 2),
   temperature |-> parseFloat(Get(e, "temperature"), 1),
   soc |-> parseFloat(Get(e, "soc"), 1),
   soh |-> parseFloat(Get(e, "soh"), 1),
   alert |-> parseInt(Get(e, "alert")),
   ampHours |-> IF Truthy(Get(e, "ampHours")) THEN parseFloat(Get(e, "ampHours"), 3) ELSE 0,
   fanStatus |-> IF Truthy(Get(e, "fanStatus")) THEN Get(e, "fanStatus") = Num(1, 0) ELSE FALSE,
   relayStatus |->
     IF Truthy(Get(e, "relayStatus")) THEN Get(e, "relayStatus") = Num(1, 0) ELSE FALSE]

\* determineBatteryStatus, lines 78-167
determineBatteryStatus(data) ==
  LET charging == FGt(data.current, chargingCurrent)
      discharging == FLt(data.current, dischargingCurrent)
  IN  IF data.alert = 2 THEN "CRITICAL"
      ELSE IF FGt(data.temperature, criticalHighTemp) THEN "OVERHEATING"
      ELSE IF FLt(data.voltage, criticalLowVoltage) THEN "CRITICALLY LOW"
      ELSE IF FLt(data.soc, criticalLowSoC) THEN "CRITICALLY LOW"
      ELSE IF charging THEN
        (IF FGt(data.soc, highSoC) THEN "ALMOST FULL" ELSE "CHARGING")
      ELSE IF discharging THEN
        (IF FLt(data.soc, lowSoC) THEN "LOW CHARGE"
         ELSE IF FLt(data.current, highDischargeCurrent) THEN "HIGH DISCHARGE"
         ELSE "DISCHARGING")
      ELSE IF FLt(data.soh, poorSoH) THEN "DEGRADED"
      ELSE IF data.alert = 1 THEN "WARNING"
      ELSE IF FGt(data.soc, highSoC) THEN "FULL"
      ELSE IF FGt(data.soc, mediumSoC) THEN "GOOD"
      ELSE IF FGt(data.soc, lowSoC) THEN "MODERATE"
      ELSE "LOW"

\* getAlertText, lines 525-532
getAlertText(level) ==
  IF level = 0 THEN "Normal"
  ELSE IF level = 1 THEN "Warning"
  ELSE IF level = 2 THEN "Critical"
  ELSE "Unknown"

\* Utilities.formatDate(..., "yyyy-MM-dd HH:mm:ss"): the time to the second
formatDate(t) == t \div 1000

\* mutant of switchText: the switch reads as on whatever the flag
switchText_AlwaysOn(flag) == "ON"

\* flag ? "ON" : "OFF" of logData, updateDashboard and sendAlertEmail
switchText(flag) == IF flag THEN "ON" ELSE "OFF"

\* logData, lines 216-228: the row appended to the data sheet
dataRow(data, status) ==
  [timestamp |-> formatDate(data.timestamp),
   voltage |-> data.voltage, current |-> data.current,
   temperature |-> data.temperature, soc |-> data.soc, soh |-> data.soh,
   ampHours |-> data.ampHours, alertText |-> getAlertText(data.alert),
   fanStatus |-> switchText(data.fanStatus),
   relayStatus |-> switchText(data.relayStatus),
   batteryStatus |-> status]

\* mutant of deleteRange: the newest rows are deleted
deleteRange_Newest(lastRow) ==
  IF lastRow > MAX_ROWS
  THEN [rowPosition |-> (lastRow - (MAX_ROWS * 2) \div 10) + 1,
        howMany |-> (MAX_ROWS * 2) \div 10]
  ELSE [rowPosition |-> 2, howMany |-> 0]

\* manageSheetSize, lines 541-544: the arguments of sheet.deleteRows, no row
\* when nothing is deleted; Math.floor(MAX_ROWS * 0.2) is MAX_ROWS * 2 \div 10
deleteRange(lastRow) ==
  IF lastRow > MAX_ROWS
  THEN [rowPosition |-> 2, howMany |-> (MAX_ROWS * 2) \div 10]
  ELSE [rowPosition |-> 2, howMany |-> 0]

\* manageSheetSize, lines 537-545: getLastRow() after it
manageSheetSize(lastRow) == lastRow - deleteRange(lastRow).howMany

\* toFixed(dec) of a number held in units of 10^-dec
toFixed(x, dec) == IF isnan(x) THEN Text("NaN") ELSE Num(x, dec)

\* updateDashboard, lines 433-443: cells B4 to B14
updateDashboard(data, status) ==
  [cell \in 4..14 |->
     CASE cell = 4 -> Num(formatDate(data.timestamp), 0)
       [] cell = 5 -> toFixed(data.voltage, 2)
       [] cell = 6 -> toFixed(data.current, 2)
       [] cell = 7 -> toFixed(data.temperature, 1)
       [] cell = 8 -> toFixed(data.soc, 1)
       [] cell = 9 -> toFixed(data.soh, 1)
       [] cell = 10 -> toFixed(data.ampHours, 3)
       [] cell = 11 -> Text(getAlertText(data.alert))
       [] cell = 12 -> Text(switchText(data.fanStatus))
       [] cell = 13 -> Text(switchText(data.relayStatus))
       [] OTHER -> Text(status)]

\* sendAlertEmail, line 561
cooldownMillis == ALERT_COOLDOWN_HOURS * 60 * 60 * 1000

\* new Date(new Date().toString()), lines 560 and 605: the text of a date
\* carries no milliseconds
dateRoundTrip(t) == (t \div 1000) * 1000

\* mutant of sendAlertEmail: the cooldown is not looked at
sendAlertEmail_NoCooldown(email, last, t, ms) ==
  IF email = "" THEN [sent |-> FALSE, at |-> NoTime, lastAlertTime |-> last]
  ELSE [sent |-> TRUE, at |-> t + ms, lastAlertTime |-> dateRoundTrip(t + ms)]

\* sendAlertEmail, lines 550-606, called at t with MailApp.sendEmail returning
\* ms later: whether a mail goes out, when, and the property afterwards
sendAlertEmail(email, last, t, ms) ==
  IF email = "" THEN [sent |-> FALSE, at |-> NoTime, lastAlertTime |-> last]
  ELSE IF last # NoTime /\ t - last < cooldownMillis
    THEN [sent |-> FALSE, at |-> NoTime, lastAlertTime |-> last]
  ELSE [sent |-> TRUE, at |-> t + ms, lastAlertTime |-> dateRoundTrip(t + ms)]

\* mutant of missingParams: a parameter whose text is 0 counts as missing
missingParams_ZeroMissing(e) ==
  {i \in 1..Len(requiredParams) :
     \/ ~Truthy(Get(e, requiredParams[i]))
     \/ (Get(e, requiredParams[i]).chars = "0-9" /\ Get(e, requiredParams[i]).n = 0)}

\* doGet, lines 33-38: the places in requiredParams of the parameters the
\* request lacks
missingParams(e) == {i \in 1..Len(requiredParams) : ~Truthy(Get(e, requiredParams[i]))}

\* doGet, lines 60-63: the alert check after the row is logged
checkAlert(data, t, ms) ==
  IF data.alert >= 2 /\ alertEmail # ""
  THEN sendAlertEmail(alertEmail, lastAlertTime, t, ms)
  ELSE [sent |-> FALSE, at |-> NoTime, lastAlertTime |-> lastAlertTime]

\* doGet, lines 27-73, for the request e arriving at t
doGet(e, t, ms) ==
  \E req \in {e} :
    \E missing \in {missingParams(req)}, data \in {parseData(req, t)} :
      \E status \in {determineBatteryStatus(data)}, mail \in {checkAlert(data, t, ms)} :
        /\ params' = req
        /\ gsNow' = t
        /\ requests' = requests + 1
        /\ IF missing # {}
           THEN /\ reply' = [text |-> "Error: Missing parameter",
                             param |-> requiredParams[CHOOSE i \in missing :
                                                        \A j \in missing : i <= j]]
                /\ appendedRows' = <<>>
                /\ mailSent' = FALSE
                /\ UNCHANGED <<sheetLastRow, dashboard, lastAlertTime, mailTimes>>
           ELSE /\ appendedRows' = <<dataRow(data, status)>>
                /\ sheetLastRow' = manageSheetSize(sheetLastRow + 1)
                /\ dashboard' = updateDashboard(data, status)
                /\ mailSent' = mail.sent
                /\ lastAlertTime' = mail.lastAlertTime
                /\ mailTimes' = IF ~mail.sent THEN mailTimes
                                ELSE IF mailTimes = <<>> THEN <<mail.at>>
                                ELSE <<mailTimes[Len(mailTimes)], mail.at>>
                /\ reply' = [text |-> "Data logged successfully", param |-> ""]
        /\ UNCHANGED alertEmail

\* loop, lines 175-222, with sendDataToGoogleSheets and doGet: the slow block
\* of an iteration whose push is due, goes out and reaches the script
PushTick ==
  /\ requests < MaxRequests
  /\ step' = "PushTick"
  /\ old' = Snapshot
  /\ \E raw \in PushCurrents, v \in PushVoltages, t \in PushTemps,
        gap \in PushGapMs, ms \in MailMs :
       LET currentMillis == Add32(now, Ticks(gap))
           c == readCurrent(raw)
           charging == chargeDirection(c, isCharging)
           s == calculateSoC(v, t, c)
       IN  /\ now' = currentMillis
           /\ current' = c
           /\ isCharging' = charging
           /\ soc' = s
           /\ SlowBlock(currentMillis, v, c, charging, t)
           /\ pushLog' = "sent"
           /\ httpCode' = 200
           /\ doGet(pushUrl(v, c, temperature', s, SOH_TENTHS, alertLevel', ampHours,
                            fanOn', chargingEnabled', charging),
                    gsNow + gap, ms)
  /\ slowTick' = TRUE
  /\ UNCHANGED <<pc, iter, wifiJoin, acs712_offset, response, relayPin, lastCurrentReadTime,
                 lastReadingTime, energy, relayCheck>>

\* the parameters another client leaves out, leaves empty or sets to 0
RequestParams == {"voltage", "alert"}

\* doGet for a request that is not a push of the firmware: the query string
\* of a push with one parameter left out, left empty or set to 0
Request ==
  /\ requests < MaxRequests
  /\ step' = "Request"
  /\ old' = Snapshot
  /\ \E p \in RequestParams, how \in {"absent", "empty", "zero"},
        gap \in PushGapMs, ms \in MailMs :
       LET base == pushUrl(12000, 0, 250, 105000, SOH_TENTHS, 2, 0, FALSE, TRUE, FALSE)
           e == CASE how = "absent" -> [q \in DOMAIN base \ {p} |-> base[q]]
                  [] how = "empty" -> [base EXCEPT ![p] = Empty]
                  [] OTHER -> [base EXCEPT ![p] = Num(0, 0)]
       IN  doGet(e, gsNow + gap, ms)
  /\ UNCHANGED <<pc, iter, now, wifiJoin, acs712_offset, fanOn, chargingEnabled, alertLevel,
                 isCharging, response, lastWriter, soc, hw, timers, energy, locals>>

NextReceiver == PushTick \/ Request

\* the script when its first request arrives
InitReceiver ==
  /\ InitLoopFirmware
  /\ params = [p \in {} |-> Empty]
  /\ reply = [text |-> "", param |-> ""]
  /\ sheetLastRow \in SheetRows
  /\ appendedRows = <<>>
  /\ dashboard = [cell \in 4..14 |-> Text("Loading...")]
  /\ lastAlertTime = NoTime
  /\ mailTimes = <<>>
  /\ mailSent = FALSE
  /\ gsNow = 0
  /\ alertEmail \in AlertEmails
  /\ requests = 0

\* the pushes of the firmware and the requests of other clients, one after
\* the other, and what the script makes of them
SpecReceiver == InitReceiver /\ [][NextReceiver]_vars

\* ----------------------------------------------------------------- claims
\* the state is the one a loop() iteration ends in, and that iteration ran the
\* slow block
AfterSlowTick == step = "LoopBody" /\ slowTick

\* C1: at the end of every loop() iteration and after every /toggleRelay
\* request RELAY_PIN is HIGH exactly when chargingEnabled is false (no glitch).
C1_RelayFollowsCharging ==
  step \in {"LoopBody", "HandleRelay"} => relayPin = ~chargingEnabled

\* C2: a slow tick whose temperature read is NaN leaves the fan on at the
\* medium duty, whatever the fan state before.
C2_NaNForcesFan ==
  (AfterSlowTick /\ isnan(tempRead)) => (fanOn /\ fanEna = FAN_DUTY_NAN)

\* C3: a slow tick whose temperature read is NaN leaves chargingEnabled false,
\* whatever it was before and whatever the voltage and current.
C3_NaNDisablesCharging ==
  (AfterSlowTick /\ isnan(tempRead)) => ~chargingEnabled

\* the disable condition of the charging controller on the inputs of the tick
DisableCondition ==
  \/ voltage >= BATTERY_FULL_VOLTAGE
  \/ temperature > TEMP_HIGH
  \/ (isCharging /\ voltage > VOLTAGE_HIGH)

\* C4: the charging controller, evaluated with chargingEnabled = true, leaves
\* it false when voltage >= BATTERY_FULL_VOLTAGE or temperature > TEMP_HIGH or
\* (isCharging and voltage > VOLTAGE_HIGH), and leaves it true otherwise.
C4_AutoDisable ==
  (AfterSlowTick /\ old.chargingEnabled) => (chargingEnabled = ~DisableCondition)

W_C4_AutoDisable ==
  /\ AfterSlowTick
  /\ old.chargingEnabled
  /\ voltage = BATTERY_FULL_VOLTAGE
  /\ temperature <= TEMP_HIGH
  /\ ~chargingEnabled

\* C5: an iteration that runs the relay check ends with RELAY_PIN equal to the
\* inverse of chargingEnabled and back at the top of loop(); when the relay
\* check is the only block that ran, chargingEnabled and alertLevel are as
\* they were, for either value of chargingEnabled.
C5_RelayCheckCorrects ==
  (step = "LoopBody" /\ relayCheck) =>
    /\ relayPin = ~chargingEnabled
    /\ pc = "poll"
    /\ ~slowTick => (chargingEnabled = old.chargingEnabled /\ alertLevel = old.alertLevel)

W_C5_RelayCheckCorrects ==
  /\ step = "LoopBody"
  /\ relayCheck
  /\ ~slowTick
  /\ old.chargingEnabled
  /\ old.relayPin
  /\ ~relayPin
  /\ chargingEnabled

\* C6: after /toggleRelay has set chargingEnabled, a following slow tick does
\* not change chargingEnabled.
C6_ManualOverrideHolds ==
  (AfterSlowTick /\ old.lastWriter = "manual") => chargingEnabled = old.chargingEnabled

\* C7: a sampled current within [DISCHARGING_CURRENT_THRESHOLD,
\* CHARGING_CURRENT_THRESHOLD] leaves isCharging as it was; isCharging becomes
\* true only on a current above the upper threshold and false only on one below
\* the lower; no step other than the loop body writes isCharging.
C7_ChargeDirectionHysteresis ==
  /\ step = "LoopBody" =>
       /\ (current >= DISCHARGING_CURRENT_THRESHOLD /\ current <= CHARGING_CURRENT_THRESHOLD)
            => isCharging = old.isCharging
       /\ (isCharging /\ ~old.isCharging) => current > CHARGING_CURRENT_THRESHOLD
       /\ (~isCharging /\ old.isCharging) => current < DISCHARGING_CURRENT_THRESHOLD
  /\ step # "LoopBody" => isCharging = old.isCharging

W_C7_ChargeDirectionHysteresis ==
  /\ step = "LoopBody"
  /\ old.isCharging
  /\ current = CHARGING_CURRENT_THRESHOLD
  /\ isCharging

\* the re-enable condition of the charging controller on the inputs of the tick
EnableCondition ==
  /\ voltage < BATTERY_FULL_VOLTAGE - REENABLE_MARGIN
  /\ temperature < TEMP_HIGH
  /\ ~isCharging

\* C8: the charging controller, evaluated with chargingEnabled = false, sets
\* it true if and only if voltage < BATTERY_FULL_VOLTAGE - 0.3 V and
\* temperature < TEMP_HIGH and isCharging is false.
C8_AutoReenable ==
  (AfterSlowTick /\ ~old.chargingEnabled) => (chargingEnabled = EnableCondition)

W_C8_AutoReenable ==
  /\ AfterSlowTick
  /\ ~old.chargingEnabled
  /\ old.lastWriter = "auto"
  /\ chargingEnabled

\* C9: a slow tick with a temperature above TEMP_HIGH leaves the fan on at the
\* full-cooling duty whether it was on or off before; fanStartTime is taken
\* when the fan was off before and kept when it was on.
C9_FullCoolingAboveHigh ==
  (AfterSlowTick /\ temperature > TEMP_HIGH) =>
    /\ fanOn
    /\ fanEna = FAN_DUTY_FULL
    /\ fanStartTime = IF old.fanOn THEN old.fanStartTime
                      ELSE Add32(lastTempCheckTime, Ticks(SAMPLE_MS))

W_C9_FullCoolingAboveHigh ==
  /\ AfterSlowTick
  /\ temperature = TEMP_HIGH + 10
  /\ old.fanOn
  /\ fanOn
  /\ fanEna = FAN_DUTY_FULL
  /\ fanStartTime = old.fanStartTime

\* C10: the thresholds the fan controller runs with satisfy
\* TEMP_OFF < TEMP_WARNING < TEMP_HIGH, and a slow tick with
\* TEMP_WARNING < temperature <= TEMP_HIGH outputs the interpolated
\* warning-band duty.
C10_ThreeBands ==
  AfterSlowTick =>
    /\ TEMP_OFF < TEMP_WARNING
    /\ TEMP_WARNING < TEMP_HIGH
    /\ (temperature > TEMP_WARNING /\ temperature <= TEMP_HIGH) =>
         (fanOn /\ fanEna = map(temperature, TEMP_WARNING, TEMP_HIGH, 150, 255))

\* the duty controlFan writes for temperature t when the fan is already on
dutyWhenOn(t) == fanWrite(t, controlFan(t, TRUE, old.fanStartTime, now).dutyCycle)

\* C11: for a fan that is already on, the duty written is non-decreasing in
\* the temperature over all valid temperatures (hence within each band, however
\* the bands are cut), and the duty written above TEMP_HIGH is the largest duty
\* written for any valid temperature.
C11_DutyMonotone ==
  step = "FanTick" =>
    /\ fanEna <= FAN_DUTY_FULL
    /\ temperature > TEMP_HIGH => fanEna = FAN_DUTY_FULL
    /\ old.fanOn =>
         \A t2 \in FanTemps \ {NaN} : t2 >= temperature => dutyWhenOn(t2) >= fanEna

W_C11_DutyMonotone ==
  /\ step = "FanTick"
  /\ old.fanOn
  /\ temperature = TEMP_OFF + 10
  /\ fanEna = 110
  /\ dutyWhenOn(TEMP_OFF + 20) > fanEna
  /\ dutyWhenOn(TEMP_HIGH + 10) = FAN_DUTY_FULL

C13_FanFlagMatchesDuty ==
  /\ fanOn = (fanEna > 0)
  /\ fanEna \in 0..255
  /\ ~AfterSlowTick => fanOn = old.fanOn

W_C13_FanFlagMatchesDuty ==
  /\ AfterSlowTick
  /\ old.fanOn
  /\ old.fanEna = FAN_DUTY_FULL
  /\ ~fanOn
  /\ fanEna = 0

\* voltage and current of the latest slow tick are within their alert limits
NormalRanges ==
  /\ voltage <= VOLTAGE_HIGH
  /\ voltage >= VOLTAGE_LOW
  /\ current <= CURRENT_HIGH

\* C14: after every slow tick alertLevel is 2 if and only if
\* temperature > TEMP_HIGH or voltage > VOLTAGE_HIGH or voltage < VOLTAGE_LOW or
\* current > CURRENT_HIGH; otherwise 1 if and only if temperature >
\* TEMP_WARNING; otherwise 0; whatever alertLevel was before.
C14_AlertClassification ==
  AfterSlowTick =>
    /\ alertLevel = 2 <=> (temperature > TEMP_HIGH \/ ~NormalRanges)
    /\ alertLevel = 1 <=> (temperature <= TEMP_HIGH /\ NormalRanges
                             /\ temperature > TEMP_WARNING)
    /\ alertLevel \in {0, 1, 2}

W_C14_AlertClassification ==
  /\ AfterSlowTick
  /\ old.alertLevel = 2
  /\ alertLevel = 0
  /\ temperature = TEMP_HIGH
  /\ NormalRanges

\* C15: with voltage and current in their normal ranges a slow tick at
\* TEMP_HIGH + 1 C leaves alertLevel 2 and one at a temperature in
\* [TEMP_WARNING + 1 C, TEMP_HIGH] leaves alertLevel 1, and there is such a
\* temperature.
C15_WarningBand ==
  (AfterSlowTick /\ NormalRanges) =>
    /\ temperature = TEMP_HIGH + 10 => alertLevel = 2
    /\ (temperature >= TEMP_WARNING + 10 /\ temperature <= TEMP_HIGH) => alertLevel = 1
    /\ TEMP_WARNING + 10 <= TEMP_HIGH

\* C16: after power-up a slow tick, which evaluates the fan and the charging
\* controller, eventually runs, also when the network never becomes available.
C16_ControlLoopRuns == <>AfterSlowTick

\* C17: a /toggleRelay request with a state argument s leaves chargingEnabled
\* equal to (s = 1), one without the argument leaves it negated; either way
\* the handler leaves RELAY_PIN at the inverse of the new chargingEnabled and
\* answers 'Charging ON' exactly when chargingEnabled is true.
C17_ToggleRelay ==
  [][\A arg \in RelayArgs :
       HandleRelay(arg) =>
         /\ chargingEnabled' = IF arg.hasArg THEN arg.state = 1 ELSE ~chargingEnabled
         /\ relayPin' = ~chargingEnabled'
         /\ response' = IF chargingEnabled' THEN "Charging ON" ELSE "Charging OFF"]_vars

W_C17_ToggleRelay ==
  /\ step = "HandleRelay"
  /\ old.chargingEnabled
  /\ ~old.relayPin
  /\ ~chargingEnabled
  /\ relayPin
  /\ response = "Charging OFF"

\* clock ticks from the integration before the latest step to the latest one
elapsedTicks == Sub32(lastCurrentReadTime, old.lastCurrentReadTime)

\* C18: two consecutive fast-loop ticks that both sample the current I, T ms
\* elapsing over them, increase ampHours by exactly I * T, from any reachable
\* state of the accumulator.
C18_ConstantCurrentExact ==
  step = "TwoTicks" => ampHours - old.ampHours = current * (2 * elapsedTicks)

\* C18, as the code has it: the increase over the two ticks is I * T exactly
\* when the sample stored before them (lastCurrent) is I as well.
C18_ConstantCurrentAfterEqualSample ==
  step = "TwoTicks" =>
    ((ampHours - old.ampHours = current * (2 * elapsedTicks)) <=> (old.lastCurrent = current))

W_C18_ConstantCurrentAfterEqualSample ==
  /\ step = "TwoTicks"
  /\ iter = 4
  /\ old.lastCurrent = 250
  /\ current = 250
  /\ elapsedTicks = Ticks(SAMPLE_MS) + Ticks(1000)
  /\ ampHours - old.ampHours = 250 * (SAMPLE_MS + 1000)

\* C19: the HTTP handlers leave ampHours, lastCurrent and lastCurrentReadTime
\* as they were (setup() writes lastCurrentReadTime alone), and a loop() iteration changes them by the integration step
\* alone, whether or not the slow block (controllers, telemetry push) and the
\* relay check ran; ampHours is never set back.
C19_OnlyIntegrationWrites ==
  /\ step # "LoopBody" => (ampHours = old.ampHours /\ lastCurrent = old.lastCurrent)
  /\ step \in {"NoClient", "HandleRelay", "HandleGetData", "HandleRoot", "Glitch"} =>
       lastCurrentReadTime = old.lastCurrentReadTime
  /\ step = "LoopBody" =>
       /\ ampHours = old.ampHours + (current + old.lastCurrent) * elapsedTicks
       /\ lastCurrent = IF elapsedTicks > 0 THEN current ELSE old.lastCurrent

W_C19_OnlyIntegrationWrites ==
  /\ step = "LoopBody"
  /\ slowTick
  /\ relayCheck
  /\ old.chargingEnabled
  /\ ~chargingEnabled
  /\ ampHours # 0
  /\ ampHours = old.ampHours + (current + old.lastCurrent) * elapsedTicks

\* C20: calculateSoC returns a value within [0, 100], equal to
\* clamp(((voltage + irDropComp + tempComp) - empty) / (full - empty) * 100,
\* 0, 100), irDropComp being non-zero only for a positive current and tempComp
\* only above the reference temperature, a failed read included.
C20_SoCClamped ==
  step = "calculateSoC" =>
    LET irDropComp == IF current > 0 THEN current ELSE 0
        tempComp == IF ~isnan(tempRead) /\ tempRead > SOC_REFERENCE_TEMP
                    THEN -50 * (tempRead - SOC_REFERENCE_TEMP) ELSE 0
        raw == (voltage * 100 + irDropComp + tempComp) - BATTERY_EMPTY_VOLTAGE * 100
    IN  /\ soc >= 0
        /\ soc <= 100 * SocPerPercent
        /\ soc = IF raw < 0 THEN 0
                 ELSE IF raw > 100 * SocPerPercent THEN 100 * SocPerPercent ELSE raw

W_C20_SoCClamped ==
  /\ step = "calculateSoC"
  /\ isnan(tempRead)
  /\ current = 250
  /\ voltage = 11550
  /\ soc = 50 * SocPerPercent + 250

\* C21: readCurrent returns 0 for every converted current of magnitude below
\* 0.15 A and the converted current itself otherwise, and a sample of 0 leaves
\* isCharging as it was, in either state.
C21_Deadband ==
  [][\A raw \in ChargeRaws :
       SampleTick(raw) =>
         /\ current' = IF raw > -CURRENT_DEADBAND /\ raw < CURRENT_DEADBAND THEN 0 ELSE raw
         /\ current' = 0 => isCharging' = isCharging]_vars

W_C21_Deadband ==
  /\ step = "SampleTick"
  /\ current = 0
  /\ old.isCharging
  /\ isCharging

\* C22: an iteration attempts a push only when DATA_SEND_INTERVAL has elapsed
\* since the previous attempt, and takes the send time whether the push went
\* out or not; after a push that failed the control state is what the sample,
\* the classifier, the controllers and the relay check of that iteration made
\* it.
C22_FailedPushDropped ==
  step = "LoopBody" =>
    /\ pushLog # "none" =>
         /\ slowTick
         /\ lastDataSendTime = lastTempCheckTime
         /\ Sub32(lastDataSendTime, old.lastDataSendTime) >= Ticks(DATA_SEND_INTERVAL)
    /\ pushLog = "none" => lastDataSendTime = old.lastDataSendTime
    /\ pushLog \in {"nowifi", "error"} =>
         /\ isCharging = chargeDirection(current, old.isCharging)
         /\ ampHours = old.ampHours
                         + (current + old.lastCurrent)
                             * Sub32(lastCurrentReadTime, old.lastCurrentReadTime)
         /\ alertLevel = classifyAlert(temperature, voltage, current)
         /\ fanOn = controlFan(temperature, old.fanOn, old.fanStartTime, now).fanOn
         /\ chargingEnabled
              = controlCharging(voltage, current, temperature, old.chargingEnabled, isCharging)
         /\ relayPin = IF relayCheck THEN ~chargingEnabled ELSE old.relayPin

W_C22_FailedPushDropped ==
  /\ step = "LoopBody"
  /\ pushLog = "error"
  /\ old.lastDataSendTime = Ticks(DATA_SEND_INTERVAL)
  /\ lastDataSendTime = 2 * Ticks(DATA_SEND_INTERVAL)
  /\ ~chargingEnabled

\* C23: calibrateCurrentSensor runs once, first thing in setup(); the offset is
\* set whenever loop() or a handler can convert a current, and no later step
\* writes it.
C23_CalibratedOnce ==
  /\ step = "SetupCalibrate" =>
       (pc = "wifi" /\ iter = 0 /\ now = Ticks(CALIBRATION_MS) /\ old.acs712_offset = 0)
  /\ step # "SetupCalibrate" => acs712_offset = old.acs712_offset
  /\ pc \in {"poll", "body"} => acs712_offset \in AdcOffsets

W_C23_CalibratedOnce ==
  /\ step = "HandleGetData"
  /\ iter = 0
  /\ acs712_offset \in AdcOffsets
  /\ old.acs712_offset = acs712_offset

\* RELAY_PIN is at the inverse of chargingEnabled
PinConsistent == relayPin = ~chargingEnabled

\* C27: without glitches, the pin differs from the inverse of chargingEnabled
\* only after a change by the charging controller and only while less than
\* the relay-check interval has passed, at the latest read of millis(), since
\* the last relay check; an iteration that runs the relay check ends with the
\* pin consistent, and the pin stays consistent while chargingEnabled stays.
C27_RelayFollowsWithinInterval ==
  /\ (step = "LoopBody" /\ relayCheck) => PinConsistent
  /\ ~PinConsistent =>
       /\ lastWriter = "auto"
       /\ Sub32(lastCurrentReadTime, lastReadingTime) < Ticks(RELAY_CHECK_INTERVAL)
  /\ (old.relayPin = ~old.chargingEnabled /\ chargingEnabled = old.chargingEnabled)
       => PinConsistent

W_C27_RelayFollowsWithinInterval ==
  /\ step = "LoopBody"
  /\ relayCheck
  /\ ~slowTick
  /\ old.lastWriter = "auto"
  /\ old.relayPin = old.chargingEnabled
  /\ PinConsistent

\* C28: no voltage, temperature and isCharging meet both the disable and the
\* re-enable condition, and a further evaluation of the charging controller
\* with the inputs of a tick leaves chargingEnabled as that tick left it.
C28_ChargingNoChatter ==
  step = "ChargingTick" =>
    /\ ~(DisableCondition /\ EnableCondition)
    /\ controlCharging(voltage, current, temperature, chargingEnabled, isCharging)
         = chargingEnabled

W_C28_ChargingNoChatter ==
  /\ step = "ChargingTick"
  /\ old.chargingEnabled
  /\ ~chargingEnabled
  /\ voltage = BATTERY_FULL_VOLTAGE
  /\ ~EnableCondition

\* the latest slow tick saw a voltage and a temperature that allow charging,
\* and the latest sample shows no charging current
CalmInputs ==
  /\ voltage < BATTERY_FULL_VOLTAGE - REENABLE_MARGIN
  /\ temperature < TEMP_HIGH
  /\ current <= CHARGING_CURRENT_THRESHOLD

\* C29: if from some tick on every slow tick sees a voltage below
\* BATTERY_FULL_VOLTAGE - 0.3 V and a temperature below TEMP_HIGH and every
\* sample is at or below CHARGING_CURRENT_THRESHOLD, chargingEnabled becomes
\* true (and, nothing disabling it, is true again and again).
C29_ReenableLive == (<>[]CalmInputs) => ([]<>chargingEnabled)

\* C30: a /getData request leaves every global and both pins as they were,
\* answers with the JSON document and returns into loop().
C30_GetDataFrame ==
  step = "HandleGetData" => (Snapshot = old /\ response = "json" /\ pc = "body")

W_C30_GetDataFrame ==
  /\ step = "HandleGetData"
  /\ iter = 1
  /\ fanOn
  /\ ~chargingEnabled
  /\ alertLevel = 2
  /\ lastTempCheckTime > 0

\* C24: after a push of the firmware the charging status in the appended row
\* and on the dashboard is ON exactly when the push carried chargingStatus = 1,
\* that is when chargingEnabled is true, as the fan status is ON exactly when
\* it carried fanStatus = 1.
C24_ChargingStatusRecorded ==
  (step = "PushTick" /\ appendedRows # <<>>) =>
    /\ (appendedRows[1].relayStatus = "ON") <=> (params.chargingStatus = Num(1, 0))
    /\ (appendedRows[1].relayStatus = "ON") <=> chargingEnabled
    /\ dashboard[13] = Text(appendedRows[1].relayStatus)
    /\ (appendedRows[1].fanStatus = "ON") <=> (params.fanStatus = Num(1, 0))
    /\ dashboard[12] = Text(appendedRows[1].fanStatus)

\* the required parameters a request lacks: not carried, or carried empty
MissingIn(e) ==
  {requiredParams[i] : i \in {j \in 1..Len(requiredParams) :
                                 \/ requiredParams[j] \notin DOMAIN e
                                 \/ e[requiredParams[j]] = Empty}}

\* C25: a request that lacks one of the six required parameters gets the error
\* reply naming a parameter it lacks and leaves the sheet, the dashboard and
\* the mail state alone; a request that carries all six, be their text 0,
\* gets the success reply and appends exactly one row.
C25_RequiredFieldsValidated ==
  [][(step' \in {"PushTick", "Request"} /\ requests' = requests + 1) =>
       IF MissingIn(params') # {}
       THEN /\ reply'.text = "Error: Missing parameter"
            /\ reply'.param \in MissingIn(params')
            /\ appendedRows' = <<>>
            /\ sheetLastRow' = sheetLastRow
            /\ dashboard' = dashboard
            /\ ~mailSent'
            /\ mailTimes' = mailTimes
            /\ lastAlertTime' = lastAlertTime
       ELSE /\ reply' = [text |-> "Data logged successfully", param |-> ""]
            /\ Len(appendedRows') = 1
            /\ sheetLastRow < MAX_ROWS => sheetLastRow' = sheetLastRow + 1]_vars

W_C25_RequiredFieldsValidated ==
  /\ step = "Request"
  /\ MissingIn(params) = {}
  /\ params.alert = Num(0, 0)
  /\ reply.text = "Data logged successfully"
  /\ Len(appendedRows) = 1
  /\ appendedRows[1].alertText = "Normal"

\* C26: a request sends an e-mail only if it carries an alert of 2 or more and
\* an address is configured; two e-mails are never less than
\* ALERT_COOLDOWN_HOURS apart; and the last-alert time is set only by a request
\* that sent an e-mail, to the time of that e-mail.
C26_CooldownGated ==
  /\ mailSent => (alertEmail # "" /\ parseInt(Get(params, "alert")) >= 2)
  /\ Len(mailTimes) = 2 => mailTimes[2] - mailTimes[1] >= cooldownMillis
  /\ lastAlertTime # NoTime =>
       /\ mailTimes # <<>>
       /\ lastAlertTime <= mailTimes[Len(mailTimes)]
       /\ lastAlertTime > mailTimes[Len(mailTimes)] - 1000

\* C31: the batteryState text a push carries is the label getBatteryState
\* gives, in the data endpoint and in the serial report, for the current the
\* push was built from.
C31_BatteryStateConsistent ==
  step = "PushTick" => params.batteryState = Text(getBatteryState(current))

\* C32: a push is logged as sent only if the endpoint answered with a success
\* status (2xx).
C32_SuccessStatusOnly ==
  (step = "LoopBody" /\ pushLog = "sent") => (httpCode >= 200 /\ httpCode < 300)

\* ticks since the earliest timestamp of the run across the wraparound, for a
\* reading x of the clock taken in that run: the time that has really passed
unwrapped(x) ==
  LET origin == WrapPrevious - Ticks(WRAP_SINCE_PUSH_MS)
  IN  IF x >= origin THEN x - origin ELSE ((ClockMax - origin) + 1) + x

\* C33: across the wraparound of millis() an iteration runs the slow block,
\* the relay check and the push exactly when the time that has really passed
\* since the last one is the interval or more, and the Coulomb counter grows
\* by the mean current times the time that has really passed.
C33_CadencesAcrossWraparound ==
  step = "LoopBody" =>
    LET t == unwrapped(lastCurrentReadTime)
    IN  /\ t > unwrapped(old.lastCurrentReadTime)
        /\ slowTick <=> (t - unwrapped(old.lastTempCheckTime)
                           >= Ticks(TEMPERATURE_CHECK_INTERVAL))
        /\ relayCheck <=> (t - unwrapped(old.lastReadingTime) >= Ticks(RELAY_CHECK_INTERVAL))
        /\ (pushLog # "none") <=>
             (slowTick /\ t - unwrapped(old.lastDataSendTime) >= Ticks(DATA_SEND_INTERVAL))
        /\ lastTempCheckTime
             = IF slowTick THEN lastCurrentReadTime ELSE old.lastTempCheckTime
        /\ lastReadingTime = IF relayCheck THEN lastCurrentReadTime ELSE old.lastReadingTime
        /\ lastDataSendTime
             = IF pushLog # "none" THEN lastCurrentReadTime ELSE old.lastDataSendTime
        /\ ampHours = old.ampHours
                        + (current + old.lastCurrent)
                            * (t - unwrapped(old.lastCurrentReadTime))

W_C33_CadencesAcrossWraparound ==
  /\ step = "LoopBody"
  /\ iter > 0
  /\ lastCurrentReadTime < old.lastCurrentReadTime
  /\ slowTick
  /\ relayCheck
  /\ pushLog # "none"
  /\ ampHours # old.ampHours

\* C34: after a request that appended a row the data sheet has at most
\* MAX_ROWS rows; rows are deleted exactly when the append took it beyond
\* MAX_ROWS, and then they are the MAX_ROWS / 5 rows from row 2 on, which
\* leaves the header (row 1) and the appended row (the last one) in place.
C34_SheetBounded ==
  [][(requests' = requests + 1 /\ appendedRows' # <<>>) =>
       LET appended == sheetLastRow + 1
           deleted == deleteRange(appended)
       IN  /\ sheetLastRow' <= MAX_ROWS
           /\ sheetLastRow' = appended - deleted.howMany
           /\ (deleted.howMany > 0) <=> (appended > MAX_ROWS)
           /\ deleted.howMany > 0 =>
                /\ deleted.howMany * 5 = MAX_ROWS
                /\ deleted.rowPosition = 2
                /\ deleted.rowPosition + deleted.howMany - 1 < appended]_vars

W_C34_SheetBounded ==
  /\ requests = 1
  /\ Len(appendedRows) = 1
  /\ sheetLastRow = (MAX_ROWS + 1) - MAX_ROWS \div 5

=============================================================================
